---- MODULE Spec2Model ----
(***************************************************************************)
(* Adaptive assessment engine of JustLearnBot (src/chatbot.py).            *)
(*                                                                         *)
(* One learner is modelled.  The state is the learner's entry in the       *)
(* in-memory cache user_data, the learner's row in the user_sessions       *)
(* table (the Session Store), the rows written to the test history since   *)
(* the session was started, the learner's rows of user_weak_topics and     *)
(* user_needs_training, the follow-up buttons sent to the chat, whether    *)
(* the learner has an entry in user_selections, and what the last handler  *)
(* did.  Spec is the adaptive test alone; SpecFollowUp adds the Standard   *)
(* and Advanced follow-up (reevaluation) tests.  The                       *)
(* application handles one update at a time (Application.builder() without *)
(* concurrent updates), so a handler is one step.                          *)
(* Session time-outs of has_active_test are not modelled: every step is    *)
(* taken within the time-out of the session.                               *)
(***************************************************************************)
EXTENDS Integers, Sequences, FiniteSets, TLC

\* ---------------------------------------------------------------- bounds
MaxLog == 7         \* longest answer log explored in one session
MaxRestartLog == 1  \* longest answer log of a session that a restart finds
MaxPoolLog == 0     \* longest answer log of a session started with a pool

\* ------------------------------------------------------ program constants
max_questions_per_topic == 5

\* Topics offered by the selection keyboard (a part of TOPICS).
TOPICS ==
    {"Stacks", "Queues", "Recursion", "Graphs", "Binary Trees",
     "Linked Lists"}

\* Topic labels that occur in the question bank or in TOPICS.
TopicNames == TOPICS \cup {"Queue"}

Difficulties == {"Easy", "Medium", "Hard"}

\* Alternative topic labels (the part of TOPIC_MAPPING for TOPICS).
TOPIC_MAPPING ==
    [t \in TOPICS |-> IF t = "Queues" THEN {"Queue"} ELSE {}]

\* str.lower() on the difficulty names used.
Lower(d) ==
    CASE d = "Easy" -> "easy"
      [] d = "Medium" -> "medium"
      [] d = "Hard" -> "hard"
      [] OTHER -> d

\* DIFFICULTY_MAPPING.get(difficulty.lower(), difficulty)
DIFFICULTY_MAPPING(d) ==
    CASE Lower(d) = "easy" -> "Easy"
      [] Lower(d) = "medium" -> "Medium"
      [] Lower(d) = "med" -> "Medium"
      [] Lower(d) = "hard" -> "Hard"
      [] OTHER -> d

\* a.lower() in b.lower(), for the topic labels of TopicNames.
TopicContains(a, b) ==
    \/ a = b
    \/ a = "Queue" /\ b = "Queues"

Q(text, topic, difficulty) ==
    [question |-> text, topic |-> topic, difficulty |-> difficulty,
     correct_answer |-> "A"]

\* The rows of the question bank (data/mcqs.json) as <<text, topic,
\* difficulty>>: "Stacks" has several questions in every bucket, the
\* questions of "Queues" are labelled with the alias "Queue" and have one
\* question per bucket, "Recursion" has no Hard question, "Graphs" has no
\* question at all, "Binary Trees" has one Easy question and no Medium or
\* Hard question, "Linked Lists" has one Medium question, four Hard
\* questions and no Easy question.
mcqs_json ==
    {<<"sE1", "Stacks", "Easy">>, <<"sE2", "Stacks", "Easy">>,
     <<"sM1", "Stacks", "Medium">>, <<"sM2", "Stacks", "Medium">>,
     <<"sM3", "Stacks", "Medium">>, <<"sH1", "Stacks", "Hard">>,
     <<"sH2", "Stacks", "Hard">>, <<"qE1", "Queue", "Easy">>,
     <<"qM1", "Queue", "Medium">>, <<"qH1", "Queue", "Hard">>,
     <<"rE1", "Recursion", "Easy">>, <<"rM1", "Recursion", "Medium">>,
     <<"bE1", "Binary Trees", "Easy">>, <<"lM1", "Linked Lists", "Medium">>,
     <<"lH1", "Linked Lists", "Hard">>, <<"lH2", "Linked Lists", "Hard">>,
     <<"lH3", "Linked Lists", "Hard">>, <<"lH4", "Linked Lists", "Hard">>}

\* load_mcqs: every row of the file becomes a question.
all_mcqs == {Q(row[1], row[2], row[3]) : row \in mcqs_json}

\* "no question": the value None of an Optional[Dict] question.
NoQuestion == Q("", "", "")

\* Content hash of a question: a function of the question text, the correct
\* answer and the choices (the choices are determined by the text in
\* all_mcqs); topic and difficulty are not part of it.
get_question_hash(q) == <<q.question, q.correct_answer>>

\* question.get("question", "")[:50]; every text of all_mcqs is shorter
\* than 50 characters.
QuestionId(q) == q.question

\* The choice letters of every question of the bank: the letters of the
\* answer buttons.
Answers == {"A", "B"}

\* Letters message_handler takes as an answer (A to E): the choice letters
\* and a letter that is no choice of the question.
MessageAnswers == Answers \cup {"E"}

\* option in choices
IsChoice(answer) == answer \in Answers

\* ------------------------------------------------------- question lookup
\* matching_questions after the exact match and the alias expansion
\* (shared by both lookup functions).
AliasGroup(topic) ==
    UNION {{m} \cup TOPIC_MAPPING[m] :
             m \in {x \in TOPICS : topic = x \/ topic \in TOPIC_MAPPING[x]}}

\* A variant of MatchingQuestions whose expansion takes the questions of
\* every topic label when the exact match is empty.
MatchingQuestions_anytopic(topic, difficulty) ==
    LET std == DIFFICULTY_MAPPING(difficulty)
        exact == {q \in all_mcqs : q.topic = topic /\ q.difficulty = std}
    IN  IF exact # {} THEN exact
        ELSE {q \in all_mcqs : q.difficulty = std}

MatchingQuestions(topic, difficulty) ==
    LET std == DIFFICULTY_MAPPING(difficulty)
        exact == {q \in all_mcqs : q.topic = topic /\ q.difficulty = std}
    IN  IF exact # {} THEN exact
        ELSE {q \in all_mcqs :
                q.topic \in AliasGroup(topic) /\ q.difficulty = std}

\* get_random_question_by_topic_and_difficulty: the set of questions the
\* random selection can return; the empty set stands for None.
get_random_question_by_topic_and_difficulty(topic, difficulty) ==
    LET std == DIFFICULTY_MAPPING(difficulty)
        m1 == MatchingQuestions(topic, difficulty)
        m2 == {q \in all_mcqs : /\ TopicContains(topic, q.topic)
                                /\ Lower(std) = Lower(q.difficulty)}
        m3 == {q \in all_mcqs : TopicContains(topic, q.topic)}
        closest ==
            IF \E q \in m3 : q.difficulty = std THEN std
            ELSE IF std = "Medium"
                 THEN IF \E q \in m3 : q.difficulty = "Easy"
                      THEN "Easy" ELSE "Hard"
                 ELSE "Medium"
        m4 == {q \in m3 : q.difficulty = closest}
    IN  IF m1 # {} THEN m1
        ELSE IF m2 # {} THEN m2
        ELSE IF m4 # {} THEN m4
        ELSE m3

\* ----------------------------------------------------------- the session
\* None as the value of a session.
NoSession == [test_type |-> "None"]

IsAdaptive(s) == s.test_type = "Adaptive Test"

FirstState0 ==
    [is_first_question |-> TRUE, first_was_medium |-> FALSE,
     gave_second_easy |-> FALSE]

\* The session record of start_adaptive_test_session.  The per-topic
\* dictionaries are total functions holding the value the code takes for a
\* missing key.
NewSession(topics) ==
    [test_type |-> "Adaptive Test",
     topics |-> topics,
     remaining_topics |-> topics,
     current_question |-> NoQuestion,
     completed_topics |-> <<>>,
     weak_topics |-> <<>>,
     passed_topics |-> <<>>,
     needs_more_training |-> <<>>,
     answers |-> <<>>,
     questions_asked |-> {},
     topic_question_count |-> [t \in TopicNames |-> 0],
     first_question_state |-> [t \in TopicNames |-> FirstState0],
     hard_failures_count |-> [t \in TopicNames |-> 0],
     easy_attempts_after_medium |-> [t \in TopicNames |-> 0],
     came_from_hard_failure |-> [t \in TopicNames |-> FALSE],
     used_question_hashes |-> {}]

\* ------------------------------------------------ cache and Session Store
\* A world w is the part of the program state the engine functions read
\* and write for the learner:
\*   in_cache     user_id in user_data
\*   cache        user_data[user_id]["current_test_session"]
\*   db           the learner's row of user_sessions (load_user_session)
\*   tests        rows written by save_user_test since the session started
\*   weak_pool    the learner's rows of user_weak_topics
\*   needs_pool   the learner's rows of user_needs_training
\*   offered      the follow-up buttons sent to the chat: <<kind, topic>> for
\*                "start_reevaluation:<topic>" (kind "Reevaluation") and
\*                "start_advanced_reevaluation:<topic>" (kind "Advanced
\*                Reevaluation")
\* and the history the properties are stated on:
\*   completions  the session each row of tests was computed from
\*   pops         topics popped from remaining_topics by the answer event
\*                being handled
\*   rows         rows written to tests by the answer event being handled
\*   served       hashes of the questions that became current_question
\*   last_served  the last question that became current_question
NoServed == [q |-> NoQuestion, dup |-> FALSE, exhausted |-> FALSE]

\* save_user_data: every cached learner's session is written to the store
\* (a session of None deletes the row).
save_user_data(w) ==
    IF w.in_cache THEN [w EXCEPT !.db = w.cache] ELSE w

\* db_manager.save_user_session(user_id, session); user_data[user_id][..] =
\* session, where session is the cached object.
SaveSession(w) == [w EXCEPT !.db = w.cache]

\* Every question stored under the topic label of q has been used.
Exhausted(used, q) ==
    \A x \in all_mcqs : x.topic = q.topic => get_question_hash(x) \in used

\* A variant of set_current_adaptive_question that stores the question
\* without adding its hash to used_question_hashes.
set_current_adaptive_question_nohash(w, question) ==
    LET session == w.db
        used_hashes ==
            session.used_question_hashes \cup {get_question_hash(question)}
        new == [session EXCEPT !.current_question = question]
        dup == get_question_hash(question) \in w.served
        exh == Exhausted(used_hashes, question)
    IN  IF ~IsAdaptive(session) THEN w
        ELSE [w EXCEPT !.db = new,
                       !.cache = IF w.in_cache THEN new ELSE @,
                       !.served = @ \cup {get_question_hash(question)},
                       !.last_served =
                           [q |-> question, dup |-> dup, exhausted |-> exh]]

\* set_current_adaptive_question: the session is loaded from the store, the
\* question and its hash are added, the session is saved and the cached
\* session is replaced by a copy of it.
set_current_adaptive_question(w, question) ==
    LET session == w.db
        used_hashes ==
            session.used_question_hashes \cup {get_question_hash(question)}
        new == [session EXCEPT !.current_question = question,
                               !.used_question_hashes = used_hashes]
        dup == get_question_hash(question) \in w.served
        exh == Exhausted(used_hashes, question)
    IN  IF ~IsAdaptive(session) THEN w
        ELSE [w EXCEPT !.db = new,
                       !.cache = IF w.in_cache THEN new ELSE @,
                       !.served = @ \cup {get_question_hash(question)},
                       !.last_served =
                           [q |-> question, dup |-> dup, exhausted |-> exh]]

\* record_adaptive_answer
record_adaptive_answer(w, is_correct, topic, difficulty) ==
    IF ~w.in_cache \/ ~IsAdaptive(w.cache) THEN w
    ELSE save_user_data(
           [w EXCEPT !.cache.answers =
               Append(@, [topic |-> topic, difficulty |-> difficulty,
                          correct |-> is_correct])])

\* A variant of move_to_next_adaptive_topic that appends the head of
\* remaining_topics to completed_topics and leaves it in remaining_topics.
move_to_next_adaptive_topic_keep(w) ==
    IF ~w.in_cache \/ ~IsAdaptive(w.cache) THEN [w |-> w, ret |-> ""]
    ELSE LET s == w.cache
             popped == s.remaining_topics # <<>>
             s1 == IF popped
                   THEN [s EXCEPT
                           !.completed_topics =
                               Append(@, Head(s.remaining_topics))]
                   ELSE s
             w1 == [w EXCEPT !.cache = s1,
                             !.pops = IF popped THEN @ + 1 ELSE @]
         IN  [w |-> save_user_data(w1),
              ret |-> IF s1.remaining_topics # <<>>
                      THEN Head(s1.remaining_topics) ELSE ""]

\* move_to_next_adaptive_topic: the new world and the returned topic
\* ("" for None).
move_to_next_adaptive_topic(w) ==
    IF ~w.in_cache \/ ~IsAdaptive(w.cache) THEN [w |-> w, ret |-> ""]
    ELSE LET s == w.cache
             popped == s.remaining_topics # <<>>
             s1 == IF popped
                   THEN [s EXCEPT
                           !.remaining_topics = Tail(@),
                           !.completed_topics =
                               Append(@, Head(s.remaining_topics))]
                   ELSE s
             w1 == [w EXCEPT !.cache = s1,
                             !.pops = IF popped THEN @ + 1 ELSE @]
         IN  [w |-> save_user_data(w1),
              ret |-> IF s1.remaining_topics # <<>>
                      THEN Head(s1.remaining_topics) ELSE ""]

\* ------------------------------------------------------------ classifier
RECURSIVE TopicOrder(_)
\* The keys of topic_results in insertion order: the topics of the answer
\* log in order of first appearance.
TopicOrder(answers) ==
    IF answers = <<>> THEN <<>>
    ELSE LET n == Len(answers)
             front == TopicOrder(SubSeq(answers, 1, n - 1))
             t == answers[n].topic
         IN  IF \E i \in 1..Len(front) : front[i] = t THEN front
             ELSE Append(front, t)

TopicTotal(answers, t) ==
    Cardinality({i \in 1..Len(answers) : answers[i].topic = t})

TopicCorrect(answers, t) ==
    Cardinality({i \in 1..Len(answers) :
                   answers[i].topic = t /\ answers[i].correct})

InSeq(x, seq) == \E i \in 1..Len(seq) : seq[i] = x

Range(seq) == {seq[i] : i \in 1..Len(seq)}

\* A variant of the comparison that counts a score of exactly 0.5 as
\* below half.
ScoreBelowHalf_inclusive(answers, t) ==
    2 * TopicCorrect(answers, t) <= TopicTotal(answers, t)

\* score < 0.5 with score = correct / total
ScoreBelowHalf(answers, t) ==
    2 * TopicCorrect(answers, t) < TopicTotal(answers, t)

WeakTopics(session) ==
    LET IsWeak(t) == /\ ~InSeq(t, session.needs_more_training)
                     /\ TopicTotal(session.answers, t) > 0
                     /\ ScoreBelowHalf(session.answers, t)
    IN  SelectSeq(TopicOrder(session.answers), IsWeak)

\* A variant of PassedTopics that does not skip the topics of
\* needs_more_training.
PassedTopics_noskip(session) ==
    LET IsPassed(t) == /\ TopicTotal(session.answers, t) > 0
                       /\ ~ScoreBelowHalf(session.answers, t)
    IN  SelectSeq(TopicOrder(session.answers), IsPassed)

PassedTopics(session) ==
    LET IsPassed(t) == /\ ~InSeq(t, session.needs_more_training)
                       /\ TopicTotal(session.answers, t) > 0
                       /\ ~ScoreBelowHalf(session.answers, t)
    IN  SelectSeq(TopicOrder(session.answers), IsPassed)

\* UserTracker.update_adaptive_test_results: the classifier of the tracker
\* class, which has no needs_more_training list.
UserTracker_weak_topics(session) ==
    LET IsWeak(t) == /\ TopicTotal(session.answers, t) > 0
                     /\ 2 * TopicCorrect(session.answers, t)
                            < TopicTotal(session.answers, t)
    IN  SelectSeq(TopicOrder(session.answers), IsWeak)

UserTracker_passed_topics(session) ==
    LET IsPassed(t) == /\ TopicTotal(session.answers, t) > 0
                       /\ ~(2 * TopicCorrect(session.answers, t)
                              < TopicTotal(session.answers, t))
    IN  SelectSeq(TopicOrder(session.answers), IsPassed)

\* update_adaptive_test_results(user_id, "complete"): the session is read
\* from the store (get_user_data), the result row is written, the row of
\* the session is deleted, and save_user_data then writes the cached
\* session back.
update_adaptive_test_results(w) ==
    LET session == w.db
        test_result ==
            [test_type |-> "Adaptive Test",
             topics_selected |-> session.topics,
             weak_topics |-> WeakTopics(session),
             passed_topics |-> PassedTopics(session),
             needs_more_training |-> session.needs_more_training]
    IN  IF ~IsAdaptive(session) THEN w
        ELSE save_user_data(
               [w EXCEPT !.tests = Append(@, test_result),
                         !.completions = Append(@, session),
                         !.rows = @ + 1,
                         !.weak_pool = @ \cup Range(test_result.weak_topics),
                         !.needs_pool =
                             @ \cup Range(test_result.needs_more_training),
                         !.db = NoSession])

\* The follow-up buttons show_adaptive_test_completion sends for a result
\* row: the Standard follow-up for every weak topic, both follow-ups for
\* every topic that needs more training.
FollowUpButtons(test) ==
    {<<"Reevaluation", t>> :
        t \in Range(test.weak_topics) \cup Range(test.needs_more_training)}
    \cup {<<"Advanced Reevaluation", t>> :
             t \in Range(test.needs_more_training)}

\* show_adaptive_test_completion: the buttons of the latest result row are
\* sent, and the session is cleared from the cache and from the store.
show_adaptive_test_completion(w) ==
    LET latest_test == w.tests[Len(w.tests)]
        shown == IF w.tests = <<>> THEN {} ELSE FollowUpButtons(latest_test)
    IN  save_user_data([w EXCEPT !.in_cache = TRUE, !.cache = NoSession,
                                 !.db = NoSession,
                                 !.offered = @ \cup shown])

\* ------------------------------------------------------ unused questions
OrNone(questions) == IF questions = {} THEN {NoQuestion} ELSE questions

\* get_unused_question_by_topic_and_difficulty: the set of outcomes
\* [w, q] of the random selection (q = NoQuestion for None).
get_unused_question_by_topic_and_difficulty(w, topic, difficulty) ==
    LET session == w.cache
        matching_questions == MatchingQuestions(topic, difficulty)
        unused_questions ==
            {q \in matching_questions :
               /\ get_question_hash(q) \notin session.used_question_hashes
               /\ <<topic, difficulty, QuestionId(q)>>
                     \notin session.questions_asked}
        truly_unused ==
            {q \in all_mcqs :
               /\ q.topic = topic
               /\ q.difficulty \in Difficulties \ {difficulty}
               /\ get_question_hash(q) \notin session.used_question_hashes}
        Select(q, tracked) ==
            LET s1 == [session EXCEPT
                         !.used_question_hashes =
                             @ \cup {get_question_hash(q)},
                         !.questions_asked =
                             IF tracked
                             THEN @ \cup {<<topic, difficulty, QuestionId(q)>>}
                             ELSE @]
            IN  [w |-> [w EXCEPT !.cache = s1, !.db = s1], q |-> q]
        Random ==
            {[w |-> w, q |-> q] :
               q \in OrNone(get_random_question_by_topic_and_difficulty(
                              topic, difficulty))}
    IN  IF ~w.in_cache \/ session = NoSession THEN Random
        ELSE IF unused_questions # {}
             THEN {Select(q, TRUE) : q \in unused_questions}
        ELSE IF matching_questions # {}
             THEN IF truly_unused # {}
                  THEN {Select(q, FALSE) : q \in truly_unused}
                  ELSE {Select(q, FALSE) : q \in matching_questions}
        ELSE Random

\* ------------------------------------------------ difficulty state machine
Action(type, difficulty, set_flag, reset_flag) ==
    [type |-> type, difficulty |-> difficulty,
     set_hard_failure_flag |-> set_flag,
     reset_hard_failure_flag |-> reset_flag]

determine_next_adaptive_action(is_correct, current_difficulty, came_from_hard_failure) ==
    IF is_correct /\ current_difficulty = "Medium"
    THEN Action("next_question", "Hard", FALSE, came_from_hard_failure)
    ELSE IF is_correct /\ current_difficulty = "Easy"
    THEN Action("next_question", "Medium", FALSE, FALSE)
    ELSE IF is_correct /\ current_difficulty = "Hard"
    THEN Action("topic_complete", "", FALSE, FALSE)
    ELSE IF ~is_correct /\ current_difficulty = "Medium"
    THEN Action("next_question", "Easy", FALSE, FALSE)
    ELSE IF ~is_correct /\ current_difficulty = "Easy"
    THEN Action("topic_complete", "", FALSE, FALSE)
    ELSE IF ~is_correct /\ current_difficulty = "Hard"
    THEN Action("warning", "Medium", TRUE, FALSE)
    ELSE Action("next_question", "Medium", FALSE, FALSE)

\* The result dictionary of process_adaptive_answer, as far as the
\* handlers read it.
Result(correct, type, has_next, show) ==
    [error |-> FALSE, correct |-> correct, type |-> type,
     next_question |-> has_next, show_completion |-> show]

ErrorResult ==
    [error |-> TRUE, correct |-> FALSE, type |-> "",
     next_question |-> FALSE, show_completion |-> FALSE]

\* --------------------------------------------------- process_adaptive_answer
\* Lines 2043-2065: the topic is complete; the queue is advanced and the
\* next topic starts with a Medium question, or the test is completed.
CompleteTopic(w, is_correct) ==
    LET m == move_to_next_adaptive_topic(w)
        picks == IF m.ret = "" THEN {[w |-> m.w, q |-> NoQuestion]}
                 ELSE get_unused_question_by_topic_and_difficulty(
                          m.w, m.ret, "Medium")
    IN  {IF o.q # NoQuestion
         THEN [w |-> set_current_adaptive_question(o.w, o.q),
               res |-> Result(is_correct, "next_topic", TRUE, FALSE)]
         ELSE [w |-> update_adaptive_test_results(o.w),
               res |-> Result(is_correct, "topic_complete", FALSE, TRUE)]
         : o \in picks}

\* Lines 2091-2126: the next question of the topic is looked up; when there
\* is none the queue is advanced, and when there is still none the test is
\* completed.
NextQuestion(w, is_correct, topic, next_action, is_critical_hard_retry) ==
    LET first ==
            get_unused_question_by_topic_and_difficulty(
                w, topic, next_action.difficulty)
        retry ==
            UNION {IF o.q # NoQuestion \/ ~is_critical_hard_retry THEN {o}
                   ELSE {[w |-> o.w, q |-> q] :
                           q \in OrNone(
                             get_random_question_by_topic_and_difficulty(
                                 topic, next_action.difficulty))}
                   : o \in first}
        Advance(o) ==
            IF o.q # NoQuestion THEN {o}
            ELSE IF /\ o.w.in_cache
                    /\ o.w.cache # NoSession
                    /\ o.w.cache.remaining_topics # <<>>
                 THEN LET m == move_to_next_adaptive_topic(o.w)
                      IN  IF m.ret = ""
                          THEN {[w |-> m.w, q |-> NoQuestion]}
                          ELSE get_unused_question_by_topic_and_difficulty(
                                   m.w, m.ret, "Medium")
                 ELSE {o}
    IN  {IF o.q # NoQuestion
         THEN [w |-> set_current_adaptive_question(o.w, o.q),
               res |-> Result(is_correct, next_action.type, TRUE, FALSE)]
         ELSE [w |-> update_adaptive_test_results(o.w),
               res |-> Result(is_correct, "complete", FALSE, TRUE)]
         : o \in UNION {Advance(o1) : o1 \in retry}}

\* Lines 1980-2126: the answered question is counted, the next action is
\* determined and carried out.
RegularLogic(w, current_question, is_correct) ==
    LET current_topic == current_question.topic
        current_difficulty == current_question.difficulty
        counted ==
            [w.cache EXCEPT
               !.questions_asked =
                   @ \cup {<<current_topic, current_difficulty,
                             QuestionId(current_question)>>},
               !.topic_question_count[current_topic] = @ + 1]
        next_action ==
            determine_next_adaptive_action(
                is_correct, current_difficulty,
                counted.came_from_hard_failure[current_topic])
        is_critical_hard_retry ==
            /\ next_action.type = "next_question"
            /\ next_action.difficulty = "Hard"
            /\ counted.came_from_hard_failure[current_topic]
        flagged ==
            [counted EXCEPT
               !.came_from_hard_failure[current_topic] =
                   IF next_action.reset_hard_failure_flag THEN FALSE
                   ELSE IF next_action.set_hard_failure_flag THEN TRUE
                   ELSE @]
        w1 == [w EXCEPT !.cache = flagged]
    IN  IF next_action.type = "topic_complete"
        THEN CompleteTopic(w1, is_correct)
        ELSE IF /\ flagged.topic_question_count[current_topic]
                      >= max_questions_per_topic
                /\ ~is_critical_hard_retry
        THEN {[w |-> w1,
               res |-> Result(is_correct, "topic_max_reached", FALSE, FALSE)]}
        ELSE NextQuestion(w1, is_correct, current_topic, next_action,
                          is_critical_hard_retry)

\* A variant of HardFailure that ends the topic at the second failure
\* without adding it to needs_more_training.
HardFailure_nomark(w, current_question, is_correct) ==
    LET current_topic == current_question.topic
        w1 == SaveSession(
                [w EXCEPT !.cache.hard_failures_count[current_topic] = @ + 1])
    IN  IF current_question.difficulty = "Hard" /\ ~is_correct
        THEN IF w1.cache.hard_failures_count[current_topic] >= 2
             THEN {[w |-> w1,
                    res |-> Result(is_correct, "needs_training_complete",
                                   FALSE, FALSE)]}
             ELSE RegularLogic(w1, current_question, is_correct)
        ELSE RegularLogic(w, current_question, is_correct)

\* Lines 1947-1978: a failed Hard question is counted; the second failure
\* ends the topic as needing more training.
HardFailure(w, current_question, is_correct) ==
    LET current_topic == current_question.topic
        w1 == SaveSession(
                [w EXCEPT !.cache.hard_failures_count[current_topic] = @ + 1])
        w2 == SaveSession(
                [w1 EXCEPT !.cache.needs_more_training =
                     IF InSeq(current_topic, @) THEN @
                     ELSE Append(@, current_topic)])
    IN  IF current_question.difficulty = "Hard" /\ ~is_correct
        THEN IF w1.cache.hard_failures_count[current_topic] >= 2
             THEN {[w |-> w2,
                    res |-> Result(is_correct, "needs_training_complete",
                                   FALSE, FALSE)]}
             ELSE RegularLogic(w1, current_question, is_correct)
        ELSE RegularLogic(w, current_question, is_correct)

\* Lines 1866-1945: the retry sequence of the first question of a topic.
FirstQuestionSequence(w, current_question, is_correct) ==
    LET current_topic == current_question.topic
        current_difficulty == current_question.difficulty
        first_state == w.cache.first_question_state[current_topic]
        MarkDone(x) ==
            [x EXCEPT !.cache.first_question_state[current_topic]
                          .is_first_question = FALSE]
        medium ==
            [w EXCEPT !.cache.first_question_state[current_topic]
                          .first_was_medium = TRUE]
        easy ==
            [w EXCEPT !.cache.easy_attempts_after_medium[current_topic]
                          = @ + 1]
        easy_attempts == easy.cache.easy_attempts_after_medium[current_topic]
        weak == [w |-> SaveSession(MarkDone(easy)),
                 res |-> Result(is_correct, "mark_weak_and_continue",
                                FALSE, FALSE)]
    IN  IF ~first_state.is_first_question
        THEN HardFailure(w, current_question, is_correct)
        ELSE IF current_difficulty = "Medium"
        THEN IF is_correct
             THEN HardFailure(MarkDone(medium), current_question, is_correct)
             ELSE HardFailure(SaveSession(medium), current_question,
                              is_correct)
        ELSE IF current_difficulty = "Easy" /\ first_state.first_was_medium
        THEN IF is_correct
             THEN HardFailure(MarkDone(easy), current_question, is_correct)
             ELSE IF easy_attempts < 2
             THEN {IF o.q # NoQuestion
                   THEN [w |-> set_current_adaptive_question(o.w, o.q),
                         res |-> Result(is_correct, "next_question",
                                        TRUE, FALSE)]
                   ELSE weak
                   : o \in get_unused_question_by_topic_and_difficulty(
                               SaveSession(easy), current_topic, "Easy")}
             ELSE {weak}
        ELSE HardFailure(w, current_question, is_correct)

\* process_adaptive_answer: the set of outcomes [w, res].
process_adaptive_answer(w, answer) ==
    LET session == w.cache
        current_question == session.current_question
        is_correct == answer = current_question.correct_answer
        recorded ==
            record_adaptive_answer(w, is_correct, current_question.topic,
                                   current_question.difficulty)
    IN  IF ~w.in_cache THEN {[w |-> w, res |-> ErrorResult]}
        ELSE IF session = NoSession THEN {[w |-> w, res |-> ErrorResult]}
        ELSE IF ~IsAdaptive(session) THEN {[w |-> w, res |-> ErrorResult]}
        ELSE IF current_question = NoQuestion
        THEN {[w |-> w, res |-> ErrorResult]}
        ELSE FirstQuestionSequence(recorded, current_question, is_correct)

\* -------------------------------------------------------- follow-up tests
\* The test_type of a follow-up session, f"Reevaluation: {topic}" or
\* f"Advanced Reevaluation: {topic}", is held as its prefix (test_type) and
\* its topic (topic).
\* test_type.startswith("Reevaluation") and "Advanced" not in test_type
IsStandard(s) == s.test_type = "Reevaluation"

\* test_type.startswith("Advanced Reevaluation")
IsAdvanced(s) == s.test_type = "Advanced Reevaluation"

\* "Reevaluation" in test_type
IsFollowUp(s) == IsStandard(s) \/ IsAdvanced(s)

\* session_data of the follow-up builders; has_session_id tells whether the
\* record has a "session_id" key.
FollowUpSession(test_type, topic, questions, has_session_id) ==
    [test_type |-> test_type,
     topic |-> topic,
     questions |-> questions,
     current_question_index |-> 0,
     correct_answers |-> 0,
     incorrect_topics |-> <<>>,
     has_session_id |-> has_session_id]

\* The end of both builders: the session is saved to the store, the learner
\* is put in the cache and the session becomes the cached session.
InstallSession(w, session) ==
    save_user_data([w EXCEPT !.db = session, !.in_cache = TRUE,
                             !.cache = session])

\* start_reevaluation_test: the set of outcomes [w, error].  One question
\* is looked up for each of Easy, Medium and Hard, and the ones found are
\* kept in that order.
start_reevaluation_test(w, topic) ==
    LET Lookup(difficulty) ==
            OrNone(get_random_question_by_topic_and_difficulty(
                       topic, difficulty))
        Found(q) == q # NoQuestion
    IN  {LET questions ==
                 SelectSeq(<<easy_question, medium_question, hard_question>>,
                           Found)
         IN  IF questions = <<>> THEN [w |-> w, error |-> TRUE]
             ELSE [w |-> InstallSession(
                            w, FollowUpSession("Reevaluation", topic,
                                               questions, TRUE)),
                   error |-> FALSE]
         : easy_question \in Lookup("Easy"),
           medium_question \in Lookup("Medium"),
           hard_question \in Lookup("Hard")}

\* ExamManager.start_reevaluation_test: the question lists the builder of
\* the manager class can produce for a topic (the empty set when it returns
\* an error).  The questions of the topic and of its alias group are split
\* by difficulty, one is chosen from every non-empty bucket and the chosen
\* ones are shuffled.
ExamManager_start_reevaluation_test(topic) ==
    LET labels == {topic} \cup AliasGroup(topic)
        Bucket(difficulty) ==
            {q \in all_mcqs :
               q.topic \in labels /\ q.difficulty = difficulty}
        chosen ==
            {c \in SUBSET all_mcqs :
               /\ \A q \in c : q.topic \in labels
               /\ \A d \in Difficulties :
                     Cardinality(c \cap Bucket(d))
                         = IF Bucket(d) = {} THEN 0 ELSE 1}
    IN  UNION {{f \in [1..Cardinality(c) -> c] :
                  \A i, j \in 1..Cardinality(c) : f[i] = f[j] => i = j}
               : c \in chosen \ {{}}}

\* start_advanced_reevaluation_test: the set of outcomes [w, error].  The
\* stored and the cached session are cleared first.  hard_questions holds
\* the Hard questions of the topic, or of its alias group when the topic
\* label has none; the removal of duplicate texts changes nothing in a set
\* of questions with distinct texts.  At most 3 of them are taken, in any
\* order.
start_advanced_reevaluation_test(w, topic) ==
    LET cleared ==
            [w EXCEPT !.db = NoSession,
                      !.cache = IF w.in_cache THEN NoSession ELSE @]
        exact == {q \in all_mcqs : q.topic = topic /\ q.difficulty = "Hard"}
        hard_questions ==
            IF exact # {} THEN exact
            ELSE {q \in all_mcqs :
                    q.topic \in AliasGroup(topic) /\ q.difficulty = "Hard"}
        n == IF Cardinality(hard_questions) > 3 THEN 3
             ELSE Cardinality(hard_questions)
        orders ==
            {f \in [1..n -> hard_questions] :
               \A i, j \in 1..n : f[i] = f[j] => i = j}
    IN  IF Cardinality(hard_questions) < 2
        THEN {[w |-> cleared, error |-> TRUE]}
        ELSE {[w |-> InstallSession(
                        cleared,
                        FollowUpSession("Advanced Reevaluation", topic,
                                        questions, FALSE)),
               error |-> FALSE]
              : questions \in orders}

\* correct_answers < (total_questions * 2 // 3)
StandardStillWeak(correct_answers, total_questions) ==
    correct_answers < (total_questions * 2) \div 3

\* correct_answers < (total_questions * 0.8)
AdvancedStillWeak(correct_answers, total_questions) ==
    10 * correct_answers < 8 * total_questions

\* The common body of process_reevaluation_answer and
\* process_reevaluation_answer_advanced once the session has been checked:
\* the answer is scored, the index is advanced, the session is saved, and at
\* the last question the result row is written, a topic that is still weak
\* is added to the weak pool and the session is cleared (advanced tells
\* which of the two thresholds is applied).
SequentialAnswer(w, answer, session, advanced) ==
    LET questions == session.questions
        current_index == session.current_question_index
        question == questions[current_index + 1]
        is_correct == answer = question.correct_answer
        scored ==
            [session EXCEPT
               !.correct_answers = IF is_correct THEN @ + 1 ELSE @,
               !.incorrect_topics =
                   IF is_correct \/ InSeq(question.topic, @) THEN @
                   ELSE Append(@, question.topic),
               !.current_question_index = current_index + 1]
        saved ==
            save_user_data(
              [w EXCEPT !.db = scored,
                        !.cache = IF w.in_cache THEN scored ELSE @])
        test_completed == scored.current_question_index >= Len(questions)
        still_weak ==
            IF advanced
            THEN AdvancedStillWeak(scored.correct_answers, Len(questions))
            ELSE StandardStillWeak(scored.correct_answers, Len(questions))
        weak_topics ==
            IF still_weak THEN <<session.topic>> ELSE <<>>
        test_result ==
            [test_type |-> session.test_type,
             topics |-> <<session.topic>>,
             correct_answers |-> scored.correct_answers,
             total_questions |-> Len(questions),
             weak_topics |-> weak_topics]
        completed ==
            save_user_data(
              [saved EXCEPT
                 !.tests = Append(@, test_result),
                 !.completions = Append(@, scored),
                 !.rows = @ + 1,
                 !.weak_pool = @ \cup Range(weak_topics),
                 !.cache = IF saved.in_cache THEN NoSession ELSE @,
                 !.db = NoSession])
    IN  [w |-> IF test_completed THEN completed ELSE saved,
         res |-> Result(is_correct, "reevaluation", ~test_completed,
                        test_completed)]

\* A variant of process_reevaluation_answer that deletes the stored session
\* when it is not a Standard follow-up session, before returning the error.
process_reevaluation_answer_clear(w, answer) ==
    LET session == w.db
    IN  IF session = NoSession THEN [w |-> w, res |-> ErrorResult]
        ELSE IF ~IsStandard(session)
        THEN [w |-> [w EXCEPT !.db = NoSession], res |-> ErrorResult]
        ELSE IF session.current_question_index >= Len(session.questions)
        THEN [w |-> w, res |-> ErrorResult]
        ELSE SequentialAnswer(w, answer, session, FALSE)

\* process_reevaluation_answer: the outcome [w, res]; the session is read
\* from the store.
process_reevaluation_answer(w, answer) ==
    LET session == w.db
    IN  IF session = NoSession THEN [w |-> w, res |-> ErrorResult]
        ELSE IF ~IsStandard(session) THEN [w |-> w, res |-> ErrorResult]
        ELSE IF session.current_question_index >= Len(session.questions)
        THEN [w |-> w, res |-> ErrorResult]
        ELSE SequentialAnswer(w, answer, session, FALSE)

\* process_reevaluation_answer_advanced: the outcome [w, res].
process_reevaluation_answer_advanced(w, answer) ==
    LET session == w.db
    IN  IF session = NoSession THEN [w |-> w, res |-> ErrorResult]
        ELSE IF ~IsAdvanced(session) THEN [w |-> w, res |-> ErrorResult]
        ELSE IF session.current_question_index >= Len(session.questions)
        THEN [w |-> w, res |-> ErrorResult]
        ELSE SequentialAnswer(w, answer, session, TRUE)

\* --------------------------------------------------------------- handlers
\* has_active_test: the new world and the returned value.
has_active_test(w) ==
    LET cleared == [w |-> save_user_data([w EXCEPT !.cache = NoSession]),
                    ret |-> FALSE]
    IN  IF ~w.in_cache \/ w.cache = NoSession
        THEN [w |-> w, ret |-> FALSE]
        ELSE IF IsAdaptive(w.cache) /\ w.cache.remaining_topics = <<>>
        THEN cleared
        \* An Advanced follow-up is cleared when it is finished and when its
        \* session id is missing or differs from
        \* active_session_ids["reevaluation"], which is never assigned.
        ELSE IF IsAdvanced(w.cache) THEN cleared
        ELSE IF /\ IsStandard(w.cache)
                /\ \/ w.cache.questions = <<>>
                   \/ w.cache.current_question_index
                          >= Len(w.cache.questions)
        THEN cleared
        ELSE [w |-> w, ret |-> TRUE]

is_adaptive_test(w) == w.in_cache /\ IsAdaptive(w.cache)

\* update_adaptive_test_results(user_id, "complete") followed by
\* show_adaptive_test_completion.
CompleteTest(w) ==
    show_adaptive_test_completion(update_adaptive_test_results(w))

\* The topic-advance branches of button_handler (lines 4887-5003): the
\* queue is advanced and the next topic starts with a Medium question, taken
\* with or without the filter on used questions.
AdvanceTopic(w, unused) ==
    LET m == move_to_next_adaptive_topic(w)
        picks ==
            IF m.ret = "" THEN {[w |-> m.w, q |-> NoQuestion]}
            ELSE IF unused
            THEN get_unused_question_by_topic_and_difficulty(
                     m.w, m.ret, "Medium")
            ELSE {[w |-> m.w, q |-> q] :
                    q \in OrNone(get_random_question_by_topic_and_difficulty(
                                   m.ret, "Medium"))}
    IN  {IF o.q # NoQuestion
         THEN set_current_adaptive_question(o.w, o.q)
         ELSE CompleteTest(o.w)
         : o \in picks}

\* button_handler, "adaptive_answer:" (lines 4882-5026): what follows
\* process_adaptive_answer.
ButtonNextAction(w, res) ==
    IF res.type \in {"mark_weak_and_continue", "topic_complete"}
    THEN AdvanceTopic(w, FALSE)
    ELSE IF res.type \in {"topic_max_reached", "needs_training_complete"}
    THEN AdvanceTopic(w, TRUE)
    ELSE IF res.type = "complete" THEN {CompleteTest(w)}
    ELSE IF res.next_question THEN {w}
    ELSE {CompleteTest(w)}

\* message_handler (lines 5558-5592): what follows process_adaptive_answer.
MessageNextAction(w, res) ==
    IF ~is_adaptive_test(w) THEN {w}
    ELSE IF res.type \in {"topic_complete", "complete"}
    THEN {CompleteTest(w)}
    ELSE {w}

\* ------------------------------------------------------------------ state
VARIABLES in_cache, cache, db, tests, completions, pops, rows, served,
          last_served, last, user_selections, weak_pool, needs_pool, offered

vars == <<in_cache, cache, db, tests, completions, pops, rows, served,
          last_served, last, user_selections, weak_pool, needs_pool, offered>>

World ==
    [in_cache |-> in_cache, cache |-> cache, db |-> db, tests |-> tests,
     completions |-> completions, pops |-> pops, rows |-> rows,
     served |-> served,
     last_served |-> last_served,
     weak_pool |-> weak_pool, needs_pool |-> needs_pool, offered |-> offered]

SetWorld(w) ==
    /\ in_cache' = w.in_cache
    /\ cache' = w.cache
    /\ db' = w.db
    /\ tests' = w.tests
    /\ completions' = w.completions
    /\ pops' = w.pops
    /\ rows' = w.rows
    /\ served' = w.served
    /\ last_served' = w.last_served
    /\ weak_pool' = w.weak_pool
    /\ needs_pool' = w.needs_pool
    /\ offered' = w.offered

\* What the last handler was: op is "none", "menu", "start", "answer",
\* "reset", "restart", "start_reevaluation", "start_advanced_reevaluation",
\* "reevaluation_answer", "other_learner" or "failed_save"; for an answer,
\* the path it came in by, whether its letter is a choice letter, the
\* question it answered, the result of the answer operation, and
\* remaining_topics and is_first_question of the topic of the question
\* before the answer.
NoEvent ==
    [op |-> "none", path |-> "", is_choice |-> TRUE, question |-> NoQuestion,
     res |-> ErrorResult, remaining |-> <<>>, first |-> FALSE]

Init ==
    /\ in_cache = FALSE
    /\ cache = NoSession
    /\ db = NoSession
    /\ tests = <<>>
    /\ completions = <<>>
    /\ pops = 0
    /\ rows = 0
    /\ served = {}
    /\ last_served = NoServed
    /\ last = NoEvent
    /\ user_selections = FALSE
    /\ weak_pool = {}
    /\ needs_pool = {}
    /\ offered = {}

\* Topic selections made on the keyboard (sequences of distinct topics of
\* TOPICS, in the order they were ticked).
Selections ==
    {<<"Stacks">>, <<"Queues">>, <<"Recursion">>, <<"Graphs">>,
     <<"Stacks", "Queues">>, <<"Queues", "Stacks">>,
     <<"Recursion", "Queues">>, <<"Queues", "Recursion">>,
     <<"Stacks", "Graphs">>, <<"Graphs", "Queues">>,
     <<"Queues", "Graphs", "Recursion">>,
     <<"Binary Trees">>, <<"Queues", "Binary Trees">>}

\* start_adaptive_test_session
start_adaptive_test_session(w, topics) ==
    [w EXCEPT !.db = NewSession(topics), !.cache = NewSession(topics),
              !.in_cache = TRUE]

\* get_current_adaptive_topic ("" for None)
get_current_adaptive_topic(w) ==
    IF ~IsAdaptive(w.db) \/ w.db.remaining_topics = <<>> THEN ""
    ELSE Head(w.db.remaining_topics)

\* button_handler, "subject_adaptive:CS211" (lines 4231-4245): refused while
\* has_active_test, otherwise the learner gets an entry in user_selections
\* (user_selections is TRUE when the learner has an entry; the topics
\* ticked with "select_topic:" are chosen when the test is started).
SubjectAdaptive ==
    LET h == has_active_test([World EXCEPT !.pops = 0, !.rows = 0])
    IN  /\ SetWorld(h.w)
        /\ user_selections' = (user_selections \/ ~h.ret)
        /\ last' = [NoEvent EXCEPT !.op = "menu"]

\* button_handler, "start_test" (lines 5309-5348): needs an entry in
\* user_selections, which is kept when the test has started.
StartTest(selected_topics) ==
    LET fresh == [World EXCEPT !.tests = <<>>, !.completions = <<>>,
                               !.pops = 0, !.rows = 0, !.served = {},
                               !.last_served = NoServed]
        w1 == start_adaptive_test_session(fresh, selected_topics)
        first_topic == get_current_adaptive_topic(w1)
    IN  /\ user_selections
        /\ UNCHANGED user_selections
        /\ \E first_question \in
              OrNone(get_random_question_by_topic_and_difficulty(
                         first_topic, "Medium")) :
             SetWorld(IF first_question = NoQuestion THEN w1
                      ELSE set_current_adaptive_question(w1, first_question))
        /\ last' = [NoEvent EXCEPT !.op = "start"]

\* An answer is handled while the answer log is shorter than MaxLog; in a
\* session that was started when a pool already held a topic (a pool is
\* filled and no result row was written since the start), while it is
\* shorter than MaxPoolLog.
CanAnswer ==
    LET started_with_pool == tests = <<>> /\ weak_pool \cup needs_pool # {}
    IN  IsAdaptive(cache) =>
            Len(cache.answers)
                < (IF started_with_pool THEN MaxPoolLog ELSE MaxLog)

Answered(path, answer, w, o) ==
    [op |-> "answer", path |-> path, is_choice |-> IsChoice(answer),
     question |-> w.cache.current_question,
     res |-> o.res, remaining |-> w.cache.remaining_topics,
     first |-> w.cache.first_question_state[
                   w.cache.current_question.topic].is_first_question]

\* button_handler, "adaptive_answer:<answer>" (lines 4833-5026).
AnswerButton(answer) ==
    LET w == [World EXCEPT !.pops = 0, !.rows = 0]
    IN  /\ CanAnswer
        /\ UNCHANGED user_selections
        /\ \E o \in process_adaptive_answer(w, answer) :
             /\ IF o.res.error THEN SetWorld(o.w)
                ELSE \E w2 \in ButtonNextAction(o.w, o.res) : SetWorld(w2)
             /\ last' = IF o.res.error
                        THEN [NoEvent EXCEPT !.op = "answer",
                                             !.path = "button",
                                             !.is_choice = IsChoice(answer)]
                        ELSE Answered("button", answer, w, o)

\* message_handler with a text of A..E (lines 5520-5618): the answer goes to
\* process_adaptive_answer when the cached session is adaptive and to
\* process_reevaluation_answer otherwise.
AnswerMessage(answer) ==
    LET h == has_active_test([World EXCEPT !.pops = 0, !.rows = 0])
        r == process_reevaluation_answer(h.w, answer)
    IN  /\ CanAnswer
        /\ UNCHANGED user_selections
        /\ IF ~h.ret
           THEN /\ SetWorld(h.w)
                /\ last' = [NoEvent EXCEPT !.op = "answer",
                                           !.path = "message",
                                           !.is_choice = IsChoice(answer)]
           ELSE IF ~is_adaptive_test(h.w)
           THEN /\ SetWorld(r.w)
                /\ last' = [NoEvent EXCEPT !.op = "reevaluation_answer",
                                           !.path = "message",
                                           !.is_choice = IsChoice(answer),
                                           !.res = r.res]
           ELSE \E o \in process_adaptive_answer(h.w, answer) :
                  /\ IF o.res.error THEN SetWorld(o.w)
                     ELSE \E w2 \in MessageNextAction(o.w, o.res) :
                            SetWorld(w2)
                  /\ last' = IF o.res.error
                             THEN [NoEvent EXCEPT
                                     !.op = "answer", !.path = "message",
                                     !.is_choice = IsChoice(answer)]
                             ELSE Answered("message", answer, h.w, o)

\* reset_command (lines 5648-5703).
Reset ==
    /\ SetWorld(save_user_data(
                  [World EXCEPT !.cache = IF in_cache THEN NoSession ELSE @,
                                !.pops = 0, !.rows = 0]))
    /\ user_selections' = FALSE
    /\ last' = [NoEvent EXCEPT !.op = "reset"]

\* The process is stopped and main() is run again without --reset-all: the
\* in-memory dictionaries are empty, the tables of the store are kept.
\* Restarts are explored while a session with at most MaxRestartLog logged
\* answers is stored; a restart with no stored session leaves the learner
\* as in the initial state.
Restart ==
    /\ IsAdaptive(db)
    /\ Len(db.answers) <= MaxRestartLog
    /\ SetWorld([World EXCEPT !.in_cache = FALSE, !.cache = NoSession,
                              !.pops = 0, !.rows = 0, !.served = {},
                              !.last_served = NoServed])
    /\ user_selections' = FALSE
    /\ last' = [NoEvent EXCEPT !.op = "restart"]

\* button_handler, "start_reevaluation:<topic>" (lines 5351-5406), pressed
\* on a button that was sent to the chat: the stored session is cleared
\* (the cached one is not: user_info is a new dictionary of get_user_data,
\* and save_user_data writes the cached session back), and the builder is
\* run.
StartReevaluation(topic) ==
    LET fresh == [World EXCEPT !.tests = <<>>, !.completions = <<>>,
                               !.pops = 0, !.rows = 0, !.served = {},
                               !.last_served = NoServed]
        cleared == save_user_data([fresh EXCEPT !.db = NoSession])
    IN  /\ <<"Reevaluation", topic>> \in offered
        /\ UNCHANGED user_selections
        /\ \E o \in start_reevaluation_test(cleared, topic) :
             /\ SetWorld(o.w)
             /\ last' = [NoEvent EXCEPT !.op = "start_reevaluation",
                                        !.res.error = o.error]

\* handle_advanced_reevaluation_callback,
\* "start_advanced_reevaluation:<topic>" (lines 3681-3716), pressed on a
\* button that was sent to the chat.
StartAdvancedReevaluation(topic) ==
    LET fresh == [World EXCEPT !.tests = <<>>, !.completions = <<>>,
                               !.pops = 0, !.rows = 0, !.served = {},
                               !.last_served = NoServed]
    IN  /\ <<"Advanced Reevaluation", topic>> \in offered
        /\ UNCHANGED user_selections
        /\ \E o \in start_advanced_reevaluation_test(fresh, topic) :
             /\ SetWorld(o.w)
             /\ last' = [NoEvent EXCEPT
                           !.op = "start_advanced_reevaluation",
                           !.res.error = o.error]

\* button_handler, "reevaluation_answer:<answer>" (lines 5042-5203), pressed
\* on an answer button of a follow-up question (such a question can be in
\* the chat once a follow-up button has been sent): the stored session is
\* checked and the answer goes to the function of its kind.
ReevaluationAnswerButton(answer) ==
    LET w == [World EXCEPT !.pops = 0, !.rows = 0]
        session == db
        r == IF IsAdvanced(session)
             THEN process_reevaluation_answer_advanced(w, answer)
             ELSE process_reevaluation_answer(w, answer)
    IN  /\ offered # {}
        /\ UNCHANGED user_selections
        /\ IF \/ session = NoSession
              \/ ~IsFollowUp(session)
              \/ session.current_question_index >= Len(session.questions)
           THEN /\ SetWorld(w)
                /\ last' = [NoEvent EXCEPT !.op = "reevaluation_answer",
                                           !.path = "button",
                                           !.is_choice = IsChoice(answer)]
           ELSE /\ SetWorld(r.w)
                /\ last' = [NoEvent EXCEPT !.op = "reevaluation_answer",
                                           !.path = "button",
                                           !.is_choice = IsChoice(answer),
                                           !.res = r.res]

\* The adaptive test alone; the answers sent by message are choice letters.
Next ==
    \/ SubjectAdaptive
    \/ Restart
    \/ \E selected_topics \in Selections : StartTest(selected_topics)
    \/ \E answer \in Answers : AnswerButton(answer)
    \/ \E answer \in Answers : AnswerMessage(answer)
    \/ Reset

Spec == Init /\ [][Next]_vars

\* The learner also takes follow-up tests.  The adaptive tests of this
\* specification are on one topic.
FollowUpSelections ==
    {<<"Stacks">>, <<"Queues">>, <<"Recursion">>, <<"Binary Trees">>,
     <<"Linked Lists">>}

NextFollowUp ==
    \/ SubjectAdaptive
    \/ \E selected_topics \in FollowUpSelections : StartTest(selected_topics)
    \/ \E answer \in Answers : AnswerButton(answer)
    \/ \E answer \in MessageAnswers : AnswerMessage(answer)
    \/ Reset
    \/ \E topic \in TopicNames : StartReevaluation(topic)
    \/ \E topic \in TopicNames : StartAdvancedReevaluation(topic)
    \/ \E answer \in Answers : ReevaluationAnswerButton(answer)

SpecFollowUp == Init /\ [][NextFollowUp]_vars

\* A handler that runs for another learner and calls save_user_data (every
\* start, answer, topic advance, completion and reset does): the loop of
\* save_user_data over user_data writes this learner's cached session to
\* this learner's row of user_sessions.  The other learner's own records
\* are not part of the state.
OtherLearnerSaves ==
    /\ SetWorld(save_user_data([World EXCEPT !.pops = 0, !.rows = 0]))
    /\ UNCHANGED user_selections
    /\ last' = [NoEvent EXCEPT !.op = "other_learner"]

\* The learner's handlers interleaved with the handlers of another learner.
NextTwoLearners ==
    \/ NextFollowUp
    \/ OtherLearnerSaves

SpecTwoLearners == Init /\ [][NextTwoLearners]_vars

\* ------------------------------------------------- a save that fails
\* A connection of get_connection on the learner's row of user_sessions:
\* the committed row and the row as the open transaction sees it.
get_connection(row) == [committed |-> row, working |-> row]

\* DELETE FROM user_sessions WHERE user_id = ?
execute_delete(conn) == [conn EXCEPT !.working = NoSession]

\* INSERT INTO user_sessions (user_id, session_data)
execute_insert(conn, session_data) ==
    [conn EXCEPT !.working = session_data]

commit(conn) == [conn EXCEPT !.committed = conn.working]

rollback(conn) == [conn EXCEPT !.working = conn.committed]

\* conn.close(): what a later load_user_session reads.
close(conn) == conn.committed

\* A variant of save_user_session whose failure commits the transaction as
\* far as it got (the row deleted) instead of rolling it back.
save_user_session_partial(row, session_data, fails) ==
    LET deleted == execute_delete(get_connection(row))
        inserted == IF session_data # NoSession
                    THEN execute_insert(deleted, session_data)
                    ELSE deleted
    IN  IF fails THEN close(commit(deleted))
        ELSE close(commit(inserted))

\* DatabaseManager.save_user_session: the row after the call; fails tells
\* whether an exception is raised after the DELETE and before the commit
\* (the serialization or the INSERT raises), which get_connection answers
\* with a rollback.
save_user_session(row, session_data, fails) ==
    LET deleted == execute_delete(get_connection(row))
        inserted == IF session_data # NoSession
                    THEN execute_insert(deleted, session_data)
                    ELSE deleted
    IN  IF fails THEN close(rollback(deleted))
        ELSE close(commit(inserted))

\* A handler of another learner calls save_user_data and the save of this
\* learner's cached session raises; save_user_data logs the error.
OtherLearnerSaveFails ==
    /\ in_cache
    /\ SetWorld([World EXCEPT !.db = save_user_session(db, cache, TRUE),
                              !.pops = 0, !.rows = 0])
    /\ UNCHANGED user_selections
    /\ last' = [NoEvent EXCEPT !.op = "failed_save"]

NextStoreFailure ==
    \/ NextTwoLearners
    \/ OtherLearnerSaveFails

SpecStoreFailure == Init /\ [][NextStoreFailure]_vars

\* ------------------------------------------------------------- properties
\* The entries of the answer log for topic t.
TopicEntries(answers, t) == SelectSeq(answers, LAMBDA a : a.topic = t)

Entry(a, difficulty, correct) ==
    a.difficulty = difficulty /\ a.correct = correct

\* The last handler was an answer that process_adaptive_answer accepted.
AnswerHandled == last.op = "answer" /\ ~last.res.error

\* A session record held for the learner, in the cache or in the store.
Sessions == {s \in {cache, db} : IsAdaptive(s)}

\* C1: for every topic the answer log of a session has at most 5 entries,
\* or exactly 6 when the sixth is the Hard retry that follows a correct
\* Medium answer after a failed Hard question; it never has 7 or more.
C1_Ceiling ==
    \A s \in Sessions : \A t \in TopicNames :
        LET e == TopicEntries(s.answers, t)
        IN  \/ Len(e) <= 5
            \/ /\ Len(e) = 6
               /\ e[6].difficulty = "Hard"
               /\ Entry(e[5], "Medium", TRUE)
               /\ \E i \in 1..4 : Entry(e[i], "Hard", FALSE)

\* A correct Hard answer on t in the log.
HardCorrect(answers, t) ==
    \E i \in 1..Len(answers) :
        answers[i].topic = t /\ Entry(answers[i], "Hard", TRUE)

\* C2: a correct Hard answer on topic t resolves t (no later answer on t,
\* and the current question is not on t), and every result row lists such
\* a topic in passed_topics and in neither of the other lists.
C2_HardCorrectPasses ==
    /\ \A s \in Sessions : \A t \in TopicNames :
          \A i \in 1..Len(s.answers) :
             (s.answers[i].topic = t /\ Entry(s.answers[i], "Hard", TRUE))
             => /\ \A j \in (i + 1)..Len(s.answers) : s.answers[j].topic # t
                /\ s.current_question.topic # t
    /\ \A k \in 1..Len(tests) : \A t \in TopicNames :
          HardCorrect(completions[k].answers, t)
          => /\ InSeq(t, tests[k].passed_topics)
             /\ ~InSeq(t, tests[k].weak_topics)
             /\ ~InSeq(t, tests[k].needs_more_training)

\* C3: when the second failed Hard answer on topic t has been handled, t is
\* in needs_more_training and the current question is not on t; every
\* result row lists a topic with two Hard failures in needs_more_training
\* only.
C3_TwoHardFailures ==
    /\ (AnswerHandled /\ last.res.type = "needs_training_complete")
       => \A s \in Sessions :
             /\ InSeq(last.question.topic, s.needs_more_training)
             /\ s.current_question.topic # last.question.topic
    /\ \A k \in 1..Len(tests) : \A t \in TopicNames :
          completions[k].hard_failures_count[t] >= 2
          => /\ InSeq(t, tests[k].needs_more_training)
             /\ ~InSeq(t, tests[k].weak_topics)
             /\ ~InSeq(t, tests[k].passed_topics)

\* The log of topic t starts with a failed Medium and two failed Easy
\* answers.
ThreeFailures(answers, t) ==
    LET e == TopicEntries(answers, t)
    IN  /\ Len(e) >= 3
        /\ Entry(e[1], "Medium", FALSE)
        /\ Entry(e[2], "Easy", FALSE)
        /\ Entry(e[3], "Easy", FALSE)

\* C4: after a failed first Medium and two failed Easy answers on topic t,
\* t has ended: the log has no further answer on t, the current question is
\* not on t, the answer that ended it advanced the queue, and every result
\* row lists t as weak.
C4_TwoEasyFailures ==
    /\ \A s \in Sessions : \A t \in TopicNames :
          ThreeFailures(s.answers, t)
          => /\ Len(TopicEntries(s.answers, t)) = 3
             /\ s.current_question.topic # t
    /\ (AnswerHandled /\ last.res.type = "mark_weak_and_continue")
       => pops = 1
    /\ \A k \in 1..Len(tests) : \A t \in TopicNames :
          ThreeFailures(completions[k].answers, t)
          => InSeq(t, tests[k].weak_topics)

\* C5: a question that becomes the current question has a content hash that
\* no earlier current question of the session had, unless every question of
\* its topic had already been used when it was selected.
C5_NoRepeat == last_served.dup => last_served.exhausted

\* The results of process_adaptive_answer that resolve a topic.
Resolutions ==
    {"topic_complete", "next_topic", "mark_weak_and_continue",
     "needs_training_complete", "topic_max_reached"}

\* C6: an answer that resolves a topic pops exactly one topic from
\* remaining_topics, and that topic is the one appended to
\* completed_topics.
C6_OnePopPerResolution ==
    (AnswerHandled /\ last.res.type \in Resolutions)
    => /\ pops = 1
       /\ \A s \in Sessions :
             /\ s.remaining_topics = Tail(last.remaining)
             /\ s.completed_topics # <<>>
             /\ s.completed_topics[Len(s.completed_topics)]
                    = Head(last.remaining)

\* C7: results are recorded only for a session whose remaining_topics is
\* empty, and no session with an empty remaining_topics is left behind by a
\* handler.
C7_CompleteIffNoRemaining ==
    /\ \A k \in 1..Len(completions) :
          completions[k].remaining_topics = <<>>
    /\ \A s \in Sessions : s.remaining_topics # <<>>


Disjoint(s) ==
    Range(s.remaining_topics) \cap Range(s.completed_topics) = {}

\* C8: after every step, remaining_topics and completed_topics of a held
\* session have no topic in common, and no topic that was in
\* completed_topics before the step is in remaining_topics of the same
\* session after it.
C8_CompletedNeverRemaining ==
    [][\A s2 \in {x \in {cache', db'} : IsAdaptive(x)} :
          /\ Disjoint(s2)
          /\ last'.op # "start"
             => \A s \in Sessions :
                   Range(s.completed_topics)
                       \cap Range(s2.remaining_topics) = {}]_vars

\* A session in progress with a completed topic and a topic still queued.
C8_Witness ==
    /\ AnswerHandled
    /\ IsAdaptive(cache) /\ cache = db
    /\ cache.completed_topics # <<>>
    /\ cache.remaining_topics # <<>>

\* C9: when an answer during which results were recorded has been handled,
\* neither the store nor the cache holds a session.
C9_ClearedAfterCompletion ==
    (AnswerHandled /\ rows > 0) => (db = NoSession /\ cache = NoSession)

\* C10: every result row classifies each topic of the answer log that is
\* not in needs_more_training by its ratio: weak iff correct/total < 1/2,
\* passed otherwise; the classifier of UserTracker puts the topic in the
\* same list.
C10_RatioClassifier ==
    \A k \in 1..Len(tests) : \A t \in TopicNames :
        LET a == completions[k].answers
            total == Len(TopicEntries(a, t))
            correct == Len(SelectSeq(TopicEntries(a, t),
                                     LAMBDA x : x.correct))
        IN  (total > 0 /\ ~InSeq(t, completions[k].needs_more_training))
            => /\ InSeq(t, tests[k].weak_topics) <=> (2 * correct < total)
               /\ InSeq(t, tests[k].passed_topics) <=> (2 * correct >= total)
               /\ InSeq(t, UserTracker_weak_topics(completions[k]))
                      <=> (2 * correct < total)
               /\ InSeq(t, UserTracker_passed_topics(completions[k]))
                      <=> (2 * correct >= total)

\* A result row with a topic answered exactly half correctly, not in
\* needs_more_training, and listed as passed.
C10_Witness ==
    \E k \in 1..Len(tests) : \E t \in TopicNames :
        LET a == completions[k].answers
        IN  /\ TopicTotal(a, t) > 0
            /\ 2 * TopicCorrect(a, t) = TopicTotal(a, t)
            /\ ~InSeq(t, completions[k].needs_more_training)
            /\ InSeq(t, tests[k].passed_topics)
            /\ ~InSeq(t, tests[k].weak_topics)

\* The number of occurrences of x in seq.
Count(x, seq) == Cardinality({i \in 1..Len(seq) : seq[i] = x})

\* C11: in every result row no topic occurs in two of passed_topics,
\* weak_topics and needs_more_training or twice in one of them, and every
\* topic with an answer in the log occurs in exactly one of them.
C11_ResultListsPartition ==
    \A k \in 1..Len(tests) : \A t \in TopicNames :
        LET n == Count(t, tests[k].passed_topics)
                 + Count(t, tests[k].weak_topics)
                 + Count(t, tests[k].needs_more_training)
        IN  /\ n <= 1
            /\ TopicTotal(completions[k].answers, t) > 0 => n = 1

\* A result row with a topic in needs_more_training and another topic in
\* passed_topics or weak_topics.
C11_Witness ==
    \E k \in 1..Len(tests) :
        /\ tests[k].needs_more_training # <<>>
        /\ tests[k].passed_topics # <<>> \/ tests[k].weak_topics # <<>>

\* C12: a start_test step taken while has_active_test is true for the
\* learner leaves the stored session and the cached session as they were.
C12_StartRefusedWhileActive ==
    [][(last'.op = "start" /\ IsAdaptive(db) /\ has_active_test(World).ret)
       => (db' = db /\ cache' = cache)]_vars

\* C13: after a reset step neither the store nor the cache holds a session,
\* whether or not the learner had an entry in the cache, and a reset step
\* that follows a reset step changes nothing.
C13_ResetClears ==
    [][last'.op = "reset"
       => /\ db' = NoSession
          /\ cache' = NoSession
          /\ last.op = "reset"
             => <<in_cache, cache, db>>' = <<in_cache, cache, db>>]_vars

\* ExamManager._determine_next_adaptive_action (src/bot/exam_manager.py):
\* the type and the difficulty of the returned action.
ExamManager_determine_next_adaptive_action(is_correct, current_difficulty) ==
    IF is_correct /\ current_difficulty = "Medium"
    THEN [type |-> "next_question", difficulty |-> "Hard"]
    ELSE IF is_correct /\ current_difficulty = "Easy"
    THEN [type |-> "next_question", difficulty |-> "Hard"]
    ELSE IF is_correct /\ current_difficulty = "Hard"
    THEN [type |-> "topic_complete", difficulty |-> ""]
    ELSE IF ~is_correct /\ current_difficulty = "Medium"
    THEN [type |-> "next_question", difficulty |-> "Easy"]
    ELSE IF ~is_correct /\ current_difficulty = "Easy"
    THEN [type |-> "offer_reevaluation", difficulty |-> ""]
    ELSE IF ~is_correct /\ current_difficulty = "Hard"
    THEN [type |-> "warning", difficulty |-> "Medium"]
    ELSE [type |-> "next_question", difficulty |-> "Medium"]

\* C14: for an Easy question that was answered correctly, both next-action
\* functions return a next question of difficulty Medium.
C14_EasyCorrectGivesMedium ==
    (AnswerHandled /\ last.res.correct /\ last.question.difficulty = "Easy")
    => /\ \A flag \in BOOLEAN :
             LET a == determine_next_adaptive_action(TRUE, "Easy", flag)
             IN  a.type = "next_question" /\ a.difficulty = "Medium"
       /\ LET b == ExamManager_determine_next_adaptive_action(
                       last.res.correct, last.question.difficulty)
          IN  b.type = "next_question" /\ b.difficulty = "Medium"

\* The last handler was an answer that put a new question in front of the
\* learner.
QuestionServed ==
    /\ AnswerHandled
    /\ IsAdaptive(cache)
    /\ cache.current_question # NoQuestion
    /\ last.res.next_question \/ cache.current_question # last.question

\* C15: a Hard question is put in front of the learner only by the answer
\* that follows a correct Medium answer on the same topic, and never as the
\* first question of a test.
C15_HardOnlyAfterMediumCorrect ==
    /\ (QuestionServed /\ cache.current_question.difficulty = "Hard")
       => /\ last.question.difficulty = "Medium"
          /\ last.res.correct
          /\ last.question.topic = cache.current_question.topic
    /\ (last.op = "start" /\ IsAdaptive(cache))
       => cache.current_question.difficulty # "Hard"

\* The log of topic t ends with a failed Hard answer that is the only failed
\* Hard answer on t.
FirstHardFailureLast(answers, t) ==
    LET e == TopicEntries(answers, t)
    IN  /\ e # <<>>
        /\ Entry(e[Len(e)], "Hard", FALSE)
        /\ \A i \in 1..(Len(e) - 1) : ~Entry(e[i], "Hard", FALSE)

\* The log of topic t ends with the first failed Hard answer followed by a
\* correct Medium answer.
MediumCorrectAfterHardFailure(answers, t) ==
    LET e == TopicEntries(answers, t)
    IN  /\ Len(e) >= 2
        /\ Entry(e[Len(e)], "Medium", TRUE)
        /\ FirstHardFailureLast(SubSeq(e, 1, Len(e) - 1), t)

\* C16: after the first failed Hard answer on topic t the current question
\* is a Medium question on t and came_from_hard_failure[t] is set; after a
\* correct answer to that Medium question the current question is a Hard
\* question on t and the flag is cleared; the flag is set only when the log
\* of t has a failed Hard answer and the current question is not a Hard
\* question on t.
C16_HardRetryFlag ==
    \A s \in Sessions : \A t \in TopicNames :
        /\ (AnswerHandled /\ last.question.topic = t
                /\ FirstHardFailureLast(s.answers, t))
           => /\ s.current_question.topic = t
              /\ s.current_question.difficulty = "Medium"
              /\ s.came_from_hard_failure[t]
        /\ (AnswerHandled /\ last.question.topic = t
                /\ MediumCorrectAfterHardFailure(s.answers, t))
           => /\ s.current_question.topic = t
              /\ s.current_question.difficulty = "Hard"
              /\ ~s.came_from_hard_failure[t]
        /\ s.came_from_hard_failure[t]
           => /\ \E i \in 1..Len(s.answers) :
                    s.answers[i].topic = t
                    /\ Entry(s.answers[i], "Hard", FALSE)
              /\ ~(s.current_question.topic = t
                   /\ s.current_question.difficulty = "Hard")

\* The log of topic t ends with a failed Medium answer followed by a failed
\* Easy answer, and the Medium answer was not the first answer on t.
SteadyEasyFailure(answers, t) ==
    LET e == TopicEntries(answers, t)
    IN  /\ Len(e) >= 3
        /\ Entry(e[Len(e) - 1], "Medium", FALSE)
        /\ Entry(e[Len(e)], "Easy", FALSE)

\* C17: when is_first_question is false for topic t, a failed Medium answer
\* on t is followed by an Easy question on t, a failed answer to that Easy
\* question ends t (the current question is not on t), and every result row
\* lists a topic that ended this way as weak.
C17_OneStrikeEasy ==
    /\ (AnswerHandled /\ ~last.first /\ ~last.res.correct
            /\ last.question.difficulty = "Medium")
       => \A s \in Sessions :
             /\ s.current_question.topic = last.question.topic
             /\ s.current_question.difficulty = "Easy"
    /\ (AnswerHandled /\ ~last.first /\ ~last.res.correct
            /\ last.question.difficulty = "Easy")
       => \A s \in Sessions :
             s.current_question.topic # last.question.topic
    /\ \A k \in 1..Len(tests) : \A t \in TopicNames :
          SteadyEasyFailure(completions[k].answers, t)
          => InSeq(t, tests[k].weak_topics)

\* The last handler put the first question of a topic in front of the
\* learner: a test was started, or an answer was followed by a question on
\* another topic.
TopicStarted ==
    /\ IsAdaptive(cache)
    /\ cache.current_question # NoQuestion
    /\ \/ last.op = "start"
       \/ AnswerHandled /\ cache.current_question.topic # last.question.topic

\* C18: the first question of a topic is a Medium question, and when it is
\* served the topic has no logged answer, question count 0, no hard failure
\* and is_first_question true.
C18_TopicStartsFreshAtMedium ==
    TopicStarted
    => LET t == cache.current_question.topic
       IN  /\ cache.current_question.difficulty = "Medium"
           /\ TopicTotal(cache.answers, t) = 0
           /\ cache.topic_question_count[t] = 0
           /\ cache.hard_failures_count[t] = 0
           /\ cache.first_question_state[t].is_first_question

\* C19: the hash of the current question of a stored or cached adaptive
\* session is in used_question_hashes of that session.
C19_CurrentHashRecorded ==
    \A s \in Sessions :
        s.current_question # NoQuestion
        => get_question_hash(s.current_question) \in s.used_question_hashes

\* A stored session whose current question was served after an answer, with
\* more than one hash recorded.
C19_Witness ==
    /\ AnswerHandled
    /\ IsAdaptive(db)
    /\ db.current_question # NoQuestion
    /\ db.current_question # last.question
    /\ Cardinality(db.used_question_hashes) >= 2

\* C20: in a held session with a topic still queued, weak_topics,
\* passed_topics and needs_more_training are all empty.
C20_ListsEmptyWhileActive ==
    \A s \in Sessions :
        s.remaining_topics # <<>>
        => /\ s.weak_topics = <<>>
           /\ s.passed_topics = <<>>
           /\ s.needs_more_training = <<>>

\* C20 (amended): in a held session weak_topics and passed_topics are
\* empty, and needs_more_training holds exactly the topics with two failed
\* Hard answers, each once.
C20_OnlyNeedsTrainingDuringSession ==
    \A s \in Sessions :
        /\ s.weak_topics = <<>>
        /\ s.passed_topics = <<>>
        /\ \A t \in TopicNames :
              Count(t, s.needs_more_training)
                  = IF s.hard_failures_count[t] >= 2 THEN 1 ELSE 0

\* A session in progress on a later topic after an earlier topic was put in
\* needs_more_training.
C20_Witness ==
    /\ AnswerHandled
    /\ IsAdaptive(cache) /\ IsAdaptive(db)
    /\ cache.remaining_topics # <<>>
    /\ cache.needs_more_training # <<>>
    /\ ~InSeq(cache.current_question.topic, cache.needs_more_training)

\* ------------------------------------------------- follow-up properties
Rank(difficulty) ==
    CASE difficulty = "Easy" -> 1
      [] difficulty = "Medium" -> 2
      [] difficulty = "Hard" -> 3
      [] OTHER -> 0

\* The difficulties of a question list rise strictly.
StrictlyIncreasing(questions) ==
    \A i, j \in 1..Len(questions) :
        i < j => Rank(questions[i].difficulty) < Rank(questions[j].difficulty)

\* The Standard follow-up sessions held for the learner.
StandardSessions == {s \in {cache, db} : IsStandard(s)}

\* C21: the question list of every Standard follow-up session, which is
\* delivered in list order, rises strictly in difficulty (Easy, then
\* Medium, then Hard), and so does every list the builder of the manager
\* class can produce for a topic whose follow-up was offered.
C21_IncreasingDifficulty ==
    /\ \A s \in StandardSessions : StrictlyIncreasing(s.questions)
    /\ \A topic \in TopicNames :
          <<"Reevaluation", topic>> \in offered
          => \A questions \in ExamManager_start_reevaluation_test(topic) :
                StrictlyIncreasing(questions)

\* The bucket of a topic and a difficulty: the questions stored under the
\* topic label, or under its alias group when the label has none.
Bucket(topic, difficulty) == MatchingQuestions(topic, difficulty)

\* C22: a Standard follow-up session holds one question from every
\* non-empty bucket of its topic and nothing else (the difficulties of its
\* questions are pairwise different, every question is in the bucket of its
\* difficulty, and there are as many questions as non-empty buckets), and
\* the builder returns an error only for a topic without questions.
C22_OnePerBucket ==
    /\ \A s \in StandardSessions :
          /\ \A i, j \in 1..Len(s.questions) :
                i # j => s.questions[i].difficulty # s.questions[j].difficulty
          /\ \A i \in 1..Len(s.questions) :
                s.questions[i]
                    \in Bucket(s.topic, s.questions[i].difficulty)
          /\ Len(s.questions)
                = Cardinality({d \in Difficulties : Bucket(s.topic, d) # {}})
    /\ \A topic \in TopicNames :
          <<"Reevaluation", topic>> \in offered
          => \A o \in start_reevaluation_test(World, topic) :
                o.error => \A d \in Difficulties : Bucket(topic, d) = {}

\* C23: for every result row of a Standard follow-up with 3 questions, the
\* topic of the follow-up is out of the weak pool when at least 2 answers
\* were correct and in the weak pool when fewer were.
C23_StandardPassLeavesWeakPool ==
    \A k \in 1..Len(tests) :
        (tests[k].test_type = "Reevaluation" /\ tests[k].total_questions = 3)
        => IF tests[k].correct_answers >= 2
           THEN tests[k].topics[1] \notin weak_pool
           ELSE tests[k].topics[1] \in weak_pool

\* The step completes an Advanced follow-up: the stored session is an
\* Advanced follow-up and the handler writes a result row.
AdvancedCompletes == IsAdvanced(db) /\ rows' = 1

\* C24: a step that completes an Advanced follow-up of 3 questions on a
\* topic leaves the topic out of the needs-training pool exactly when all 3
\* answers were correct, and when one was not it leaves the weak pool as it
\* was.
C24_AdvancedPassLeavesNeedsPool ==
    [][AdvancedCompletes =>
         LET row == tests'[Len(tests')]
             all_correct == row.correct_answers = 3
         IN  row.total_questions = 3
             => /\ (db.topic \notin needs_pool') <=> all_correct
                /\ ~all_correct => weak_pool' = weak_pool]_vars

AdvancedSessions == {s \in {cache, db} : IsAdvanced(s)}

HardBucket(topic) == MatchingQuestions(topic, "Hard")

\* C25: an Advanced follow-up session holds exactly three questions, all
\* Hard, all stored under the topic or one of its aliases, and pairwise
\* distinct; for a topic with fewer than three distinct Hard questions the
\* builder returns an error.
C25_ThreeDistinctHard ==
    /\ \A s \in AdvancedSessions :
          /\ Len(s.questions) = 3
          /\ \A i \in 1..Len(s.questions) :
                /\ s.questions[i].difficulty = "Hard"
                /\ s.questions[i].topic \in {s.topic} \cup AliasGroup(s.topic)
          /\ \A i, j \in 1..Len(s.questions) :
                i # j => s.questions[i].question # s.questions[j].question
    /\ \A topic \in TopicNames :
          (/\ <<"Advanced Reevaluation", topic>> \in offered
           /\ Cardinality(HardBucket(topic)) < 3)
          => \A o \in start_advanced_reevaluation_test(World, topic) : o.error

AdaptiveActive ==
    in_cache /\ IsAdaptive(cache) /\ cache.remaining_topics # <<>>

StartsFollowUp ==
    last'.op \in {"start_reevaluation", "start_advanced_reevaluation"}

\* C26: a follow-up session is created only when the learner has no active
\* adaptive session and the topic is in the weak pool (Standard) or in the
\* needs-training pool (Advanced); starting a follow-up leaves an active
\* adaptive session as it is.
C26_FollowUpOnlyFromPool ==
    [][StartsFollowUp =>
         /\ AdaptiveActive => cache' = cache /\ db' = db
         /\ IsStandard(db') => db'.topic \in weak_pool
         /\ IsAdvanced(db') => db'.topic \in needs_pool]_vars

\* C27: an operation performed for another learner does not change this
\* learner's stored session record: after it, the store holds what this
\* learner's own last operation stored.
C27_OtherLearnerLeavesStore ==
    [][last'.op = "other_learner" => db' = db]_vars

\* The last handler scored an answer to the current question and did not
\* replace the question.
AnsweredUnreplaced ==
    /\ AnswerHandled
    /\ in_cache /\ IsAdaptive(cache)
    /\ ~last.res.next_question
    /\ cache.current_question = last.question

SecondAnswer == AnsweredUnreplaced /\ last'.op = "answer" /\ ~last'.res.error

\* The session after an answer event: the cached session, or the session
\* the result row was computed from when the event completed the test.
SessionAfterAnswer ==
    IF IsAdaptive(cache') THEN cache'
    ELSE IF rows' > 0 THEN completions'[Len(completions')]
    ELSE cache

\* C28: a served question of an adaptive session is answered at most once:
\* a second answer event for a current question that was already answered
\* appends no entry to the answer log, does not raise hard_failures_count
\* and pops no topic.
C28_AnsweredAtMostOnce ==
    [][SecondAnswer =>
         /\ Len(SessionAfterAnswer.answers) = Len(cache.answers)
         /\ SessionAfterAnswer.hard_failures_count = cache.hard_failures_count
         /\ pops' = 0]_vars

\* An answer event whose letter is no choice letter of the question.
InvalidAnswer ==
    /\ last'.op \in {"answer", "reevaluation_answer"}
    /\ ~last'.is_choice

\* C29: an answer that is not one of the choice letters of the current
\* question is rejected with an error: it is not scored, not appended to
\* the answer log, and the session is left as it was.
C29_InvalidAnswerRejected ==
    [][(InvalidAnswer /\ has_active_test(World).ret) =>
         /\ last'.res.error
         /\ cache' = cache
         /\ db' = db]_vars

SessionsKept(w) == w.in_cache = in_cache /\ w.cache = cache /\ w.db = db

\* C30: when an answer operation returns an error (the learner has no
\* session, the session has no current question, or the session is of the
\* other kind), the stored session record and the cached session are what
\* they were before the call.
C30_ErrorLeavesSessions ==
    \A answer \in MessageAnswers :
        /\ \A o \in process_adaptive_answer(World, answer) :
              o.res.error => SessionsKept(o.w)
        /\ process_reevaluation_answer(World, answer).res.error
              => SessionsKept(process_reevaluation_answer(World, answer).w)
        /\ process_reevaluation_answer_advanced(World, answer).res.error
              => SessionsKept(
                     process_reevaluation_answer_advanced(World, answer).w)

\* An adaptive answer was sent against a follow-up session and an error was
\* returned; a Standard follow-up answer against it is scored, an Advanced
\* one returns an error too.
C30_Witness ==
    /\ last.op = "answer" /\ last.path = "button" /\ last.res.error
    /\ in_cache /\ IsStandard(cache) /\ IsStandard(db)
    /\ process_reevaluation_answer_advanced(World, "A").res.error

\* C31: a save of a session record that fails after the old row was deleted
\* and before the commit leaves the stored record as it was: a load after
\* it returns the record stored before the attempt.
C31_FailedSaveKeepsRecord ==
    [][last'.op = "failed_save" => db' = db]_vars

\* A save failed while the cached session differed from the stored record,
\* and the stored record is still there.
C31_Witness ==
    /\ last.op = "failed_save"
    /\ in_cache /\ IsAdaptive(db) /\ cache # db

\* An answer event scores an answer of the given correctness to a question
\* of the given difficulty while came_from_hard_failure is set for its topic.
FlagSetAnswer(difficulty, correct) ==
    /\ in_cache /\ IsAdaptive(cache)
    /\ cache.current_question # NoQuestion
    /\ cache.came_from_hard_failure[cache.current_question.topic]
    /\ cache.current_question.difficulty = difficulty
    /\ last'.op = "answer" /\ ~last'.res.error
    /\ last'.res.correct = correct

\* The question after the answer event is on the topic of the answered
\* question and of the given difficulty.
NextOnTopic(difficulty) ==
    /\ IsAdaptive(cache')
    /\ cache'.current_question.topic = cache.current_question.topic
    /\ cache'.current_question.difficulty = difficulty

\* C32: a Medium question answered incorrectly while came_from_hard_failure
\* is set for its topic is followed by an Easy question of the topic and the
\* flag stays set; a Medium question answered correctly while the flag is
\* set is followed by the Hard retry, past the ceiling of five questions
\* too.
C32_FlaggedMediumMiss ==
    [][/\ FlagSetAnswer("Medium", FALSE)
          => /\ NextOnTopic("Easy")
             /\ cache'.came_from_hard_failure[cache.current_question.topic]
       /\ FlagSetAnswer("Medium", TRUE) => NextOnTopic("Hard")]_vars

\* C33: after every answer event of an adaptive session, the
\* topic_question_count of each topic is the number of entries of the
\* answer log with that topic.
C33_CountMatchesLog ==
    (AnswerHandled /\ in_cache /\ IsAdaptive(cache))
        => \A t \in DOMAIN cache.topic_question_count :
             cache.topic_question_count[t] = TopicTotal(cache.answers, t)

\* The hard-failure bookkeeping of an adaptive session is consistent.
HardFailureBookkeeping(s) ==
    \A t \in DOMAIN s.hard_failures_count :
        /\ s.hard_failures_count[t] <= 2
        /\ s.came_from_hard_failure[t] => s.hard_failures_count[t] = 1
        /\ InSeq(t, s.needs_more_training) <=> s.hard_failures_count[t] = 2

\* C34: in every reachable adaptive state and for every topic,
\* hard_failures_count is at most 2, came_from_hard_failure is set only
\* while hard_failures_count is 1, and the topic is in needs_more_training
\* exactly when hard_failures_count is 2.
C34_HardFailureBookkeeping ==
    /\ (in_cache /\ IsAdaptive(cache)) => HardFailureBookkeeping(cache)
    /\ IsAdaptive(db) => HardFailureBookkeeping(db)

\* C35: an answer event that completes an adaptive session writes the
\* session to the test history exactly once, and no answer event writes
\* more than one row.
C35_HistoryWrittenOnce ==
    AnswerHandled => /\ rows <= 1
                     /\ last.res.show_completion => rows = 1

\* An answer event leaves the adaptive session active with the question
\* and the head of remaining_topics it found.
NoProgress ==
    /\ last'.op = "answer" /\ ~last'.res.error
    /\ in_cache /\ IsAdaptive(cache)
    /\ in_cache' /\ IsAdaptive(cache')
    /\ cache.remaining_topics # <<>> /\ cache'.remaining_topics # <<>>
    /\ Head(cache'.remaining_topics) = Head(cache.remaining_topics)
    /\ cache'.current_question = cache.current_question

\* C36: every answer event makes progress: none leaves the session active
\* with the same current question and the same head of remaining_topics,
\* so that a session ends after a bounded number of answers per topic.
C36_AnswerMakesProgress == [][~NoProgress]_vars

\* completed_topics followed by remaining_topics is topics.
QueuePartitionsTopics(s) ==
    s.completed_topics \o s.remaining_topics = s.topics

\* The current question carries the label of the head of remaining_topics.
QuestionOfHead(s) ==
    s.current_question # NoQuestion
        => /\ s.remaining_topics # <<>>
           /\ s.current_question.topic = Head(s.remaining_topics)

\* The current question carries the label of the head of remaining_topics
\* or a label that TOPIC_MAPPING lists for it.
QuestionOfHeadGroup(s) ==
    s.current_question # NoQuestion
        => /\ s.remaining_topics # <<>>
           /\ s.current_question.topic \in AliasGroup(Head(s.remaining_topics))

\* An answer event leaves topics of the session as it found it.
TopicsKept ==
    (/\ in_cache /\ IsAdaptive(cache) /\ in_cache' /\ IsAdaptive(cache')
     /\ last'.op = "answer") => cache'.topics = cache.topics

C38_CacheEqualsStore ==
    (in_cache /\ IsAdaptive(cache)) => cache = db

\* The start of an adaptive test found no question for the first topic.
StartFailed == last.op = "start" /\ last_served.q = NoQuestion

\* C39: when the start of an adaptive test finds no question for the first
\* topic, no session is left in the session store or in the cache.
C39_FailedStartLeavesNoSession ==
    StartFailed => /\ db = NoSession
                   /\ in_cache => cache = NoSession

\* ------------------------------------------- short Standard follow-ups
\* start_reevaluation_test keeps the questions that its three lookups find
\* and needs one question to proceed (lines 1563-1577), so a Standard
\* follow-up has one or two questions when lookups return None.  A lookup
\* returns None for a topic that the bank stores under a label of
\* TOPIC_MAPPING only ("Queues", stored as "Queue") when the bank that is
\* loaded holds no question of the difficulty under that label: the exact
\* match and the expansion find none, and the partial match does not apply
\* ("queues" is not contained in "queue").  Kept(questions, found) is the
\* list the builder keeps of the three questions of the full bank when only
\* the lookups of found return a question.
Kept(questions, found) ==
    LET F[i \in 0..Len(questions)] ==
            IF i = 0 THEN <<>>
            ELSE IF i \in found THEN Append(F[i - 1], questions[i])
            ELSE F[i - 1]
    IN  F[Len(questions)]

ShortFollowUpTopics == {"Queues"}

\* The learner has pressed the follow-up button of a topic of the pool and
\* the builder has installed a session of one, two or three questions.
InitShortFollowUp ==
    \E topic \in ShortFollowUpTopics :
      \E o \in start_reevaluation_test(
                   [in_cache |-> FALSE, cache |-> NoSession,
                    db |-> NoSession, tests |-> <<>>, completions |-> <<>>,
                    pops |-> 0, rows |-> 0, served |-> {},
                    last_served |-> NoServed, weak_pool |-> {topic},
                    needs_pool |-> {},
                    offered |-> {<<"Reevaluation", topic>>}], topic) :
        \E found \in (SUBSET (1..3)) \ {{}} :
          LET session ==
                  FollowUpSession("Reevaluation", topic,
                                  Kept(o.w.db.questions, found), TRUE)
              w == InstallSession(o.w, session)
          IN  /\ ~o.error
              /\ in_cache = w.in_cache
              /\ cache = w.cache
              /\ db = w.db
              /\ tests = w.tests
              /\ completions = w.completions
              /\ pops = w.pops
              /\ rows = w.rows
              /\ served = w.served
              /\ last_served = w.last_served
              /\ weak_pool = w.weak_pool
              /\ needs_pool = w.needs_pool
              /\ offered = w.offered
              /\ user_selections = FALSE
              /\ last = [NoEvent EXCEPT !.op = "start_reevaluation",
                                        !.res.error = FALSE]

NextShortFollowUp ==
    \/ \E answer \in MessageAnswers : AnswerMessage(answer)
    \/ \E answer \in Answers : ReevaluationAnswerButton(answer)

SpecShortFollowUp == InitShortFollowUp /\ [][NextShortFollowUp]_vars

\* The last answer completed a Standard follow-up and its row is the last
\* of the test history.
StandardCompleted ==
    /\ last.op = "reevaluation_answer"
    /\ ~last.res.error /\ last.res.show_completion
    /\ tests # <<>>
    /\ tests[Len(tests)].test_type = "Reevaluation"

====
